---- MODULE Spec2Model ----
(***************************************************************************)
(* A model of the movie-data cleaning pipeline (scripts/clean.py): the     *)
(* nested-field extractors as operators, and clean.run as a state machine  *)
(* with one action per pass over the table.                                *)
(***************************************************************************)
EXTENDS Integers, Sequences, FiniteSets, TLC

VARIABLES
    pc,       \* position of clean.run: the next pass, "returned" or "raised"
    df,       \* the table run works on: [cols |-> <<names>>, rows |-> <<rows>>]
    raw,      \* df_raw, the input batch (never modified: run copies it)
    credits,  \* the credits structure handed to the credits extractors
    out,      \* results of the credits extractors applied so far
    call      \* the call under study outside clean.run: its arguments and results

vars == <<pc, df, raw, credits, out, call>>

(***************************************************************************)
(* Values.  Every cell value is a tagged record, so that a null test or a  *)
(* type test never compares values of different kinds.                     *)
(*   Null          None / NaN / NaT                                        *)
(*   Num(n, d)     the number n / d (d > 0, lowest terms)                  *)
(*   Str(s)        a string                                                *)
(*   List(items)   a list                                                  *)
(*   Dict(m)       a map, m a function from keys to values                 *)
(*   Date(s)       a parsed calendar date                                  *)
(*   Raise(e)      not a value: the evaluation raised exception e          *)
(***************************************************************************)
Null == [t |-> "null"]
Num(n, d) == [t |-> "num", n |-> n, d |-> d]
IntV(n) == Num(n, 1)
Str(s) == [t |-> "str", s |-> s]
List(items) == [t |-> "list", items |-> items]
Dict(m) == [t |-> "dict", m |-> m]
Date(s) == [t |-> "date", s |-> s]
Raise(e) == [t |-> "raise", e |-> e]
EmptyMap == [k \in {} |-> Null]

IsNull(v) == v.t = "null"
IsRaise(v) == v.t = "raise"

RECURSIVE GCD(_, _)
GCD(a, b) == IF b = 0 THEN a ELSE GCD(b, a % b)
Abs(n) == IF n < 0 THEN -n ELSE n

\* x / k for a number x and an integer k > 0; null propagates
Divide(x, k) ==
    IF x.t # "num" THEN Null
    ELSE LET g == GCD(Abs(x.n), x.d * k)
         IN  Num(x.n \div g, (x.d * k) \div g)

(***************************************************************************)
(* Python primitives the extractors use.                                   *)
(***************************************************************************)
\* `key in x` raises TypeError when x is None or a number
InRaises(x) == x.t \in {"null", "num"}

\* `key in x` where it does not raise: dict membership; on a string it is a
\* substring test and on a list an element test (no string or list of the
\* model holds a key name)
KeyIn(key, x) == x.t = "dict" /\ key \in DOMAIN x.m

\* '|'.join(parts) for a sequence of str values
RECURSIVE JoinStr(_)
JoinStr(parts) ==
    IF Len(parts) = 0 THEN ""
    ELSE IF Len(parts) = 1 THEN parts[1].s
    ELSE parts[1].s \o "|" \o JoinStr(Tail(parts))

\* '|'.join(parts): TypeError unless every part is a str
PipeJoin(parts) ==
    IF \E i \in 1..Len(parts) : parts[i].t # "str" THEN Raise("TypeError")
    ELSE Str(JoinStr(parts))

\* [e['name'] for e in items if 'name' in e], for items on which `in` does not raise
RECURSIVE NamesOf(_)
NamesOf(items) ==
    IF Len(items) = 0 THEN <<>>
    ELSE IF KeyIn("name", items[1]) THEN <<items[1].m["name"]>> \o NamesOf(Tail(items))
    ELSE NamesOf(Tail(items))

\* '|'.join([e['name'] for e in items if 'name' in e])
JoinNames(items) ==
    IF \E i \in 1..Len(items) : InRaises(items[i]) THEN Raise("TypeError")
    ELSE PipeJoin(NamesOf(items))

\* items[:k]
Take(items, k) == SubSeq(items, 1, IF Len(items) < k THEN Len(items) ELSE k)

(***************************************************************************)
(* Helper functions of clean.py.                                           *)
(***************************************************************************)
extract_collection_name(collection) ==
    IF KeyIn("name", collection) THEN collection.m["name"] ELSE Null

\* faulty variant: a list without any name gives null
ExtractNameList_nameless_null(lst) ==
    IF lst.t = "list" /\ Len(lst.items) > 0 /\ JoinNames(lst.items) # Str("")
    THEN JoinNames(lst.items) ELSE Null

\* the body shared by the four list extractors
ExtractNameList(lst) ==
    IF lst.t = "list" /\ Len(lst.items) > 0 THEN JoinNames(lst.items) ELSE Null

extract_genres(genres_list) == ExtractNameList(genres_list)
extract_spoken_languages(languages_list) == ExtractNameList(languages_list)
extract_production_countries(countries_list) == ExtractNameList(countries_list)
extract_production_companies(companies_list) == ExtractNameList(companies_list)

CastCap == 5

\* faulty variant: the whole cast is joined
extract_cast_uncapped(cr) ==
    IF KeyIn("cast", cr)
    THEN LET c == cr.m["cast"]
         IN  CASE c.t = "list" -> JoinNames(c.items)
               [] c.t = "str"  -> Str("")
               [] OTHER        -> Raise("TypeError")
    ELSE Null

\* credits['cast'][:5] joined: a str slices to a str whose characters hold no
\* name; None, a number or a dict cannot be sliced
extract_cast(cr) ==
    IF KeyIn("cast", cr)
    THEN LET c == cr.m["cast"]
         IN  CASE c.t = "list" -> JoinNames(Take(c.items, CastCap))
               [] c.t = "str"  -> Str("")
               [] OTHER        -> Raise("TypeError")
    ELSE Null

\* len(x): defined on list, str (of the model: by Len) and dict
PyLen(x) ==
    CASE x.t = "list" -> IntV(Len(x.items))
      [] x.t = "str"  -> IntV(Len(x.s))
      [] x.t = "dict" -> IntV(Cardinality(DOMAIN x.m))
      [] OTHER        -> Raise("TypeError")

extract_cast_size(cr) ==
    IF KeyIn("cast", cr) THEN PyLen(cr.m["cast"]) ELSE Null

extract_crew_size(cr) ==
    IF KeyIn("crew", cr) THEN PyLen(cr.m["crew"]) ELSE Null

\* person.get(key, default) on a dict
DictGet(person, key, default) ==
    IF key \in DOMAIN person.m THEN person.m[key] ELSE default

\* the loop of extract_director over the crew list, from entry i on
RECURSIVE DirectorFrom(_, _)
DirectorFrom(crew, i) ==
    IF i > Len(crew) THEN Str("Unknown")
    ELSE IF crew[i].t # "dict" THEN Raise("AttributeError")
    ELSE IF DictGet(crew[i], "job", Null) = Str("Director")
         THEN DictGet(crew[i], "name", Str("Unknown"))
    ELSE DirectorFrom(crew, i + 1)

\* faulty variant: the job is matched without regard to case
extract_director_anycase(cr) ==
    IF KeyIn("crew", cr) /\ cr.m["crew"].t = "list"
    THEN LET c == cr.m["crew"].items
             hits == {i \in DOMAIN c :
                        DictGet(c[i], "job", Null) \in {Str("Director"), Str("director")}}
         IN  IF hits = {} THEN Str("Unknown")
             ELSE DictGet(c[CHOOSE i \in hits : \A j \in hits : i <= j], "name", Str("Unknown"))
    ELSE Str("Unknown")

extract_director(cr) ==
    IF KeyIn("crew", cr)
    THEN LET c == cr.m["crew"]
         IN  CASE c.t = "list" -> DirectorFrom(c.items, 1)
               [] c.t = "dict" -> IF DOMAIN c.m = {} THEN Str("Unknown")
                                  ELSE Raise("AttributeError")
               [] c.t = "str"  -> IF c.s = "" THEN Str("Unknown")
                                  ELSE Raise("AttributeError")
               [] OTHER        -> Raise("TypeError")
    ELSE Str("Unknown")

(***************************************************************************)
(* Tables.  A table is [cols |-> <<column names>>, rows |-> <<rows>>]; a   *)
(* row is [idx |-> its index label, src |-> the position in df_raw of the  *)
(* record it derives from (a history field, not program state),            *)
(* r |-> a function from the column names to values].                      *)
(***************************************************************************)
Range(seq) == {seq[i] : i \in DOMAIN seq}
HasCol(d, c) == c \in Range(d.cols)

\* df[c] = series: column c set (created last if new) to the values of
\* series, one per row
AssignCol(d, c, series) ==
    [cols |-> IF HasCol(d, c) THEN d.cols ELSE Append(d.cols, c),
     rows |-> [i \in DOMAIN d.rows |->
                 [d.rows[i] EXCEPT !.r =
                     [k \in Range(d.cols) \cup {c} |->
                         IF k = c THEN series[i] ELSE d.rows[i].r[k]]]]]

\* df.drop(columns=[c for c in S if c in df.columns])
DropColumns(d, S) ==
    LET keep(c) == c \notin S
        kept == SelectSeq(d.cols, keep)
    IN  [cols |-> kept,
         rows |-> [i \in DOMAIN d.rows |->
                     [d.rows[i] EXCEPT !.r = [k \in Range(kept) |-> d.rows[i].r[k]]]]]

\* df[order-restricted-to-existing].copy()
SelectColumns(d, order) ==
    LET present(c) == HasCol(d, c)
        kept == SelectSeq(order, present)
    IN  [cols |-> kept,
         rows |-> [i \in DOMAIN d.rows |->
                     [d.rows[i] EXCEPT !.r = [k \in Range(kept) |-> d.rows[i].r[k]]]]]

\* df.rename(columns={old: new}) for one pair; a missing old is ignored
RenameCol(d, old, new) ==
    [cols |-> [i \in DOMAIN d.cols |-> IF d.cols[i] = old THEN new ELSE d.cols[i]],
     rows |-> [i \in DOMAIN d.rows |->
                 [d.rows[i] EXCEPT !.r =
                     [k \in (Range(d.cols) \ {old}) \cup (IF HasCol(d, old) THEN {new} ELSE {}) |->
                         IF k = new /\ HasCol(d, old) THEN d.rows[i].r[old]
                         ELSE d.rows[i].r[k]]]]]

\* rows[i..] restricted to the rows whose mask value is TRUE
RECURSIVE Masked(_, _, _)
Masked(rows, mask, i) ==
    IF i > Len(rows) THEN <<>>
    ELSE IF mask[i] THEN <<rows[i]>> \o Masked(rows, mask, i + 1)
    ELSE Masked(rows, mask, i + 1)

\* df[mask]: the rows whose mask value is TRUE, order and labels kept
FilterRows(d, mask) == [d EXCEPT !.rows = Masked(d.rows, mask, 1)]

\* row.notna().sum() over the columns colset
NonNullCount(row, colset) == Cardinality({c \in colset : ~IsNull(row[c])})

(***************************************************************************)
(* The passes of clean.run, each a function of the table.  A pass that     *)
(* indexes a column the table lacks raises KeyError; the extraction pass   *)
(* raises what an extractor raises.                                        *)
(***************************************************************************)
drop_cols == {"adult", "imdb_id", "original_title", "video", "homepage"}

json_cols == {"belongs_to_collection", "genres", "production_countries",
              "production_companies", "spoken_languages", "credits"}

final_column_order ==
    <<"id", "title", "tagline", "release_date", "genres", "collection_name",
      "original_language", "budget_musd", "revenue_musd",
      "production_companies", "production_countries",
      "vote_count", "vote_average", "popularity", "runtime",
      "overview", "spoken_languages", "poster_path",
      "cast", "cast_size", "director", "crew_size">>

\* 1. Drop irrelevant columns
DropIrrelevant(d) == DropColumns(d, drop_cols)

\* 2. the nine extractions, in statement order: <<new column, source column>>
Extractions ==
    <<<<"collection_name", "belongs_to_collection">>,
      <<"genre_names", "genres">>,
      <<"language_codes", "spoken_languages">>,
      <<"country_names", "production_countries">>,
      <<"company_names", "production_companies">>,
      <<"cast", "credits">>,
      <<"cast_size", "credits">>,
      <<"crew_size", "credits">>,
      <<"director", "credits">>>>

\* the extractor whose result is stored in column `new`
ExtractorFor(new, v) ==
    CASE new = "collection_name" -> extract_collection_name(v)
      [] new = "genre_names"     -> extract_genres(v)
      [] new = "language_codes"  -> extract_spoken_languages(v)
      [] new = "country_names"   -> extract_production_countries(v)
      [] new = "company_names"   -> extract_production_companies(v)
      [] new = "cast"            -> extract_cast(v)
      [] new = "cast_size"       -> extract_cast_size(v)
      [] new = "crew_size"       -> extract_crew_size(v)
      [] new = "director"        -> extract_director(v)

\* the table after the first k extraction statements
RECURSIVE ExtractUpTo(_, _)
ExtractUpTo(d, k) ==
    IF k = 0 THEN d
    ELSE LET prev == ExtractUpTo(d, k - 1)
             new == Extractions[k][1]
             from == Extractions[k][2]
         IN  AssignCol(prev, new,
                       [i \in DOMAIN prev.rows |-> ExtractorFor(new, prev.rows[i].r[from])])

\* extraction statement k raises: its source column is missing (KeyError), or
\* the extractor raises on some row
\* (no earlier statement writes a source column, so d's are read)
ExtractionRaises(d, k) ==
    LET new == Extractions[k][1]
        from == Extractions[k][2]
    IN  \/ ~HasCol(d, from)
        \/ \E i \in DOMAIN d.rows : IsRaise(ExtractorFor(new, d.rows[i].r[from]))

ExtractNestedRaises(d) ==
    \E k \in DOMAIN Extractions :
        /\ \A j \in 1..(k - 1) : ~ExtractionRaises(d, j)
        /\ ExtractionRaises(d, k)

ExtractNested(d) == ExtractUpTo(d, Len(Extractions))

\* 3. Drop raw JSON columns
DropRawJson(d) == DropColumns(d, json_cols)

\* 4. Rename extracted columns to final names
RenameExtracted(d) ==
    RenameCol(RenameCol(RenameCol(RenameCol(d,
        "genre_names", "genres"),
        "language_codes", "spoken_languages"),
        "country_names", "production_countries"),
        "company_names", "production_companies")

\* 5. pd.to_numeric(errors='coerce') on one cell: the digit strings of the
\* model parse to their numbers, any other string fails to NaN
IsNumericString(s) == s \in {"0", "2", "7000000"}
ParseNumber(s) ==
    CASE s = "0" -> 0
      [] s = "2" -> 2
      [] s = "7000000" -> 7000000

ToNumeric(v) ==
    CASE v.t = "num" -> v
      [] v.t = "str" -> IF IsNumericString(v.s) THEN IntV(ParseNumber(v.s)) ELSE Null
      [] OTHER       -> Null

\* pd.to_datetime(errors='coerce') on one cell: the ISO dates of the model parse
IsDateString(s) == s \in {"1999-03-31", "2010-07-16"}
ToDatetime(v) ==
    CASE v.t = "date" -> v
      [] v.t = "str" -> IF IsDateString(v.s) THEN Date(v.s) ELSE Null
      [] OTHER       -> Null

numeric_cols == <<"budget", "revenue", "id", "popularity", "vote_count",
                  "vote_average", "runtime">>

RECURSIVE CoerceUpTo(_, _)
CoerceUpTo(d, k) ==
    IF k = 0 THEN d
    ELSE LET c == numeric_cols[k]
             prev == CoerceUpTo(d, k - 1)
         IN  AssignCol(prev, c, [i \in DOMAIN prev.rows |-> ToNumeric(prev.rows[i].r[c])])

ConvertTypesRaises(d) ==
    \E c \in Range(numeric_cols) \cup {"release_date"} : ~HasCol(d, c)

ConvertTypes(d) ==
    LET prev == CoerceUpTo(d, Len(numeric_cols))
    IN  AssignCol(prev, "release_date",
                  [i \in DOMAIN prev.rows |-> ToDatetime(prev.rows[i].r["release_date"])])

\* faulty variant: zeros are kept
ZeroToNaN_keep(v) == v

\* 6. series.replace(0, np.nan) on one cell
ZeroToNaN(v) == IF v.t = "num" /\ v.n = 0 THEN Null ELSE v

\* df[c] = df[c].replace(0, np.nan)
ReplaceZeroIn(d, c) ==
    AssignCol(d, c, [i \in DOMAIN d.rows |-> ZeroToNaN(d.rows[i].r[c])])

ReplaceZeros(d) == ReplaceZeroIn(ReplaceZeroIn(ReplaceZeroIn(d, "budget"), "revenue"), "runtime")

Million == 1000000

\* df[new] = df[c] / 1_000_000
MillionsOf(d, new, c) ==
    AssignCol(d, new, [i \in DOMAIN d.rows |-> Divide(d.rows[i].r[c], Million)])

ToMillions(d) == MillionsOf(MillionsOf(d, "budget_musd", "budget"), "revenue_musd", "revenue")

\* faulty variant: the rating is suppressed for a missing vote_count too
SuppressVotes_missing_too(d) ==
    LET F(row) == IF row["vote_count"].t = "null"
                     \/ (row["vote_count"].t = "num" /\ row["vote_count"].n = 0)
                  THEN Null ELSE row["vote_average"]
    IN  AssignCol(d, "vote_average", [i \in DOMAIN d.rows |-> F(d.rows[i].r)])

\* df.loc[df['vote_count'] == 0, 'vote_average'] = np.nan
SuppressVotes(d) ==
    LET F(row) == IF row["vote_count"].t = "num" /\ row["vote_count"].n = 0
                  THEN Null ELSE row["vote_average"]
    IN  AssignCol(d, "vote_average", [i \in DOMAIN d.rows |-> F(d.rows[i].r)])

overview_placeholders == {"", "No overview found.", "No Overview"}
tagline_placeholders == {"", "No tagline."}

\* series.replace([placeholders], np.nan) on one cell
ReplaceText(v, placeholders) ==
    IF v.t = "str" /\ v.s \in placeholders THEN Null ELSE v

CleanTextRaises(d) == ~HasCol(d, "overview") \/ ~HasCol(d, "tagline")

\* df[c] = df[c].replace([placeholders], np.nan)
ReplaceTextIn(d, c, placeholders) ==
    AssignCol(d, c, [i \in DOMAIN d.rows |-> ReplaceText(d.rows[i].r[c], placeholders)])

CleanText(d) ==
    ReplaceTextIn(ReplaceTextIn(d, "overview", overview_placeholders),
                  "tagline", tagline_placeholders)

\* faulty variant: no deduplication
DropDuplicates_none(d) == d

\* faulty variant: the duplicates are found by title
DropDuplicates_by_title(d) ==
    LET first(i) == \A j \in 1..(i - 1) : d.rows[j].r["title"] # d.rows[i].r["title"]
    IN  FilterRows(d, [i \in DOMAIN d.rows |-> first(i)])

\* 7. df.drop_duplicates(subset='id'): the first row of each id value is kept
\* (missing ids count as equal to each other)
DropDuplicates(d) ==
    LET first(i) == \A j \in 1..(i - 1) : d.rows[j].r["id"] # d.rows[i].r["id"]
    IN  FilterRows(d, [i \in DOMAIN d.rows |-> first(i)])

\* df.dropna(subset=['id', 'title'])
DropnaRequiredRaises(d) == ~HasCol(d, "id") \/ ~HasCol(d, "title")

\* faulty variant: only the id is required
DropnaRequired_id_only(d) ==
    LET keep(w) == ~IsNull(w.r["id"])
    IN  FilterRows(d, [i \in DOMAIN d.rows |-> keep(d.rows[i])])

DropnaRequired(d) ==
    LET keep(w) == ~IsNull(w.r["id"]) /\ ~IsNull(w.r["title"])
    IN  FilterRows(d, [i \in DOMAIN d.rows |-> keep(d.rows[i])])

\* 8. df.dropna(thresh=10)
Thresh == 10

\* faulty variant: the values are counted over the columns of the final table only
DropnaThresh_final_cols(d) ==
    LET keep(w) == NonNullCount(w.r, Range(d.cols) \cap Range(final_column_order)) >= Thresh
    IN  FilterRows(d, [i \in DOMAIN d.rows |-> keep(d.rows[i])])

DropnaThresh(d) ==
    LET keep(w) == NonNullCount(w.r, Range(d.cols)) >= Thresh
    IN  FilterRows(d, [i \in DOMAIN d.rows |-> keep(d.rows[i])])

\* faulty variant: the status is compared without regard to case
StatusFilter_anycase(d) ==
    IF HasCol(d, "status")
    THEN LET keep(w) == w.r["status"] \in {Str("Released"), Str("released")}
         IN  DropColumns(FilterRows(d, [i \in DOMAIN d.rows |-> keep(d.rows[i])]), {"status"})
    ELSE d

\* 9. Keep only Released movies
StatusFilter(d) ==
    IF HasCol(d, "status")
    THEN LET keep(w) == w.r["status"] = Str("Released")
         IN  DropColumns(FilterRows(d, [i \in DOMAIN d.rows |-> keep(d.rows[i])]), {"status"})
    ELSE d

\* faulty variant: the canonical columns first, then every other column
Reorder_keep_rest(d) ==
    LET other(c) == c \notin Range(final_column_order)
    IN  SelectColumns(d, final_column_order \o SelectSeq(d.cols, other))

\* 10. Final column ordering
Reorder(d) == SelectColumns(d, final_column_order)

\* faulty variant: the index labels are kept
ResetIndex_keep(d) == d

\* 11. df.reset_index(drop=True)
ResetIndex(d) ==
    [d EXCEPT !.rows = [i \in DOMAIN d.rows |-> [d.rows[i] EXCEPT !.idx = i - 1]]]

(***************************************************************************)
(* Input batches.  df_raw is what pd.DataFrame(list of API responses)      *)
(* builds: every record has every column of the batch, null where the      *)
(* response had no such key.  Records are variations of one complete       *)
(* response (Movie) and of one sparse response (Sparse).                   *)
(***************************************************************************)
MaxBatch == 2     \* records in a batch
MaxCast == 12     \* cast entries of a credits structure
MaxCrew == 3      \* crew entries of a credits structure given to the extractors alone

Bool(b) == [t |-> "bool", b |-> b]
Named(s) == Dict([name |-> Str(s)])
Unnamed == Dict([id |-> IntV(7)])
Crew(s, job) == Dict([name |-> Str(s), job |-> Str(job)])
CastOf(n) == [i \in 1..n |-> Named("N" \o ToString(i))]

FullCols ==
    <<"adult", "backdrop_path", "belongs_to_collection", "budget", "genres",
      "id", "imdb_id", "original_language", "overview", "popularity",
      "poster_path", "production_companies", "production_countries",
      "release_date", "revenue", "runtime", "spoken_languages", "status",
      "tagline", "title", "vote_average", "vote_count", "credits">>

Movie ==
    [c \in Range(FullCols) |->
        CASE c = "adult" -> Bool(FALSE)
          [] c = "backdrop_path" -> Str("/b.jpg")
          [] c = "belongs_to_collection" -> Named("Saga")
          [] c = "budget" -> IntV(5000000)
          [] c = "genres" -> List(<<Named("Drama"), Named("Action")>>)
          [] c = "id" -> IntV(1)
          [] c = "imdb_id" -> Str("tt01")
          [] c = "original_language" -> Str("en")
          [] c = "overview" -> Str("An overview.")
          [] c = "popularity" -> Num(21, 2)
          [] c = "poster_path" -> Str("/p.jpg")
          [] c = "production_companies" -> List(<<Named("Studio")>>)
          [] c = "production_countries" -> List(<<Named("Ghana")>>)
          [] c = "release_date" -> Str("1999-03-31")
          [] c = "revenue" -> IntV(7000000)
          [] c = "runtime" -> IntV(120)
          [] c = "spoken_languages" -> List(<<Named("English")>>)
          [] c = "status" -> Str("Released")
          [] c = "tagline" -> Str("A tagline.")
          [] c = "title" -> Str("A")
          [] c = "vote_average" -> IntV(6)
          [] c = "vote_count" -> IntV(20)
          [] c = "credits" -> Dict([cast |-> List(<<Named("A"), Named("B")>>),
                                    crew |-> List(<<Crew("C", "Director")>>)])]

\* a released movie with seven non-null fields
Sparse ==
    [c \in Range(FullCols) |->
        CASE c = "id" -> IntV(1)
          [] c = "title" -> Str("S")
          [] c = "status" -> Str("Released")
          [] c = "budget" -> IntV(5000000)
          [] c = "revenue" -> IntV(7000000)
          [] c = "popularity" -> Num(21, 2)
          [] c = "vote_count" -> IntV(20)
          [] OTHER -> Null]

With1(rec, c, v) == [rec EXCEPT ![c] = v]
With2(rec, c1, v1, c2, v2) == [rec EXCEPT ![c1] = v1, ![c2] = v2]
With3(rec, c1, v1, c2, v2, c3, v3) == [rec EXCEPT ![c1] = v1, ![c2] = v2, ![c3] = v3]

\* credits structures of the records
LongCredits ==
    Dict([cast |-> List(CastOf(MaxCast)),
          crew |-> List(<<Crew("P", "Producer"), Crew("D", "Director"),
                          Crew("E", "Director")>>)])
NoDirectorCredits ==
    Dict([cast |-> List(<<>>),
          crew |-> List(<<Crew("P", "Producer"), Crew("Q", "Assistant Director"),
                          Crew("R", "director")>>)])
NamelessDirectorCredits ==
    Dict([crew |-> List(<<Dict([job |-> Str("Director")]), Crew("E", "Director")>>)])
NullDirectorCredits ==
    Dict([cast |-> List(<<Named("A"), Unnamed, Named("C"), Named("D"),
                          Named("E"), Named("F")>>),
          crew |-> List(<<Dict([job |-> Str("Director"), name |-> Null])>>)])

\* records that differ in id and title (and, where they reach the output, in
\* the financial and rating fields)
IdentityRecords ==
    { Movie,
      With3(Movie, "title", Str("B"), "budget", IntV(0), "revenue", Str("7000000")),
      With3(With1(Movie, "id", IntV(2)),
            "vote_count", IntV(0), "vote_average", Num(15, 2), "credits", LongCredits),
      With3(With3(Movie, "id", Str("2"), "title", Str("B"), "budget", Str("abc")),
            "revenue", IntV(0), "vote_count", Str("0"), "vote_average", IntV(7)),
      With1(Movie, "id", Str("tt5")),
      With1(Movie, "id", Null),
      With1(Movie, "title", Null) }

StatusRecords ==
    { With1(Movie, "status", Str("Post Production")),
      With2(Movie, "id", IntV(2), "status", Null),
      With2(Movie, "id", IntV(3), "status", Str("released")) }

\* released records with id 3 that differ in the nested and text fields
FieldRecords ==
    { With3(With3(Movie, "id", IntV(3), "budget", Null, "revenue", IntV(1)),
            "vote_count", Null, "vote_average", Num(15, 2), "credits", Null),
      With3(With3(With3(Movie, "id", IntV(3), "vote_average", Str("n/a"),
                        "credits", Dict(EmptyMap)),
                  "overview", Str(""), "tagline", Str("No tagline."),
                  "release_date", Str("someday")),
            "runtime", IntV(0), "genres", List(<<>>), "belongs_to_collection", Null),
      With3(With3(Movie, "id", IntV(3), "credits", NoDirectorCredits,
                  "overview", Str("No Overview")),
            "spoken_languages", List(<<Unnamed>>), "production_companies", Null,
            "production_countries", List(<<Unnamed, Named("Togo")>>)),
      With2(Movie, "id", IntV(2), "credits", NamelessDirectorCredits),
      With2(Movie, "id", IntV(3), "credits", NullDirectorCredits) }

SparseRecords ==
    { Sparse,
      With2(Sparse, "id", IntV(2), "popularity", Null),
      With3(Sparse, "id", IntV(3), "popularity", Null, "backdrop_path", Str("/b.jpg")),
      With2(Sparse, "id", IntV(2), "status", Str("Post Production")) }

\* records of a wrong shape: a null cast value, a crew entry that is no map, a
\* null crew value, a genres list with a null element
MalformedRecords ==
    { With2(Movie, "id", IntV(2), "credits", Dict([cast |-> Null])),
      With2(Movie, "id", IntV(2), "credits",
            Dict([cast |-> List(<<Named("A")>>), crew |-> List(<<Str("Director")>>)])),
      With2(Movie, "id", IntV(2), "credits",
            Dict([cast |-> List(<<Named("A")>>), crew |-> Null])),
      With2(Movie, "id", IntV(2), "genres", List(<<Null, Named("Drama")>>)) }

Records == IdentityRecords \cup StatusRecords \cup FieldRecords \cup SparseRecords

\* the records tried under the schemas other than the full one
FewRecords ==
    { Movie, With1(Movie, "title", Str("B")),
      With1(Movie, "status", Str("Post Production")),
      With1(Sparse, "id", IntV(2)) }

Without(cols, S) == LET keep(c) == c \notin S IN SelectSeq(cols, keep)

OtherSchemas ==
    { Without(FullCols, {"status"}),
      Without(FullCols, {"original_language", "poster_path", "adult", "imdb_id"}),
      Without(FullCols, {"credits"}),
      Without(FullCols, {"tagline"}),
      Without(FullCols, {"runtime"}),
      Without(FullCols, {"title"}) }

SeqsUpTo(S, n) == UNION {[1..k -> S] : k \in 0..n}

\* pd.DataFrame(records) restricted to the columns cols
Frame(cols, recs) ==
    [cols |-> cols,
     rows |-> [i \in DOMAIN recs |->
                 [idx |-> i - 1, src |-> i, r |-> [c \in Range(cols) |-> recs[i][c]]]]]

\* the malformed records come in batches of the full schema, next to Movie
Batches ==
    {Frame(FullCols, b) : b \in SeqsUpTo(Records, MaxBatch)}
        \cup UNION {{Frame(cols, b) : b \in SeqsUpTo(FewRecords, MaxBatch)} : cols \in OtherSchemas}
        \cup {Frame(FullCols, b) : b \in SeqsUpTo(MalformedRecords \cup {Movie}, MaxBatch)}

Unset == [t |-> "unset"]
NoCall == [fn |-> "none"]
NoResults == [cast |-> Unset, cast_size |-> Unset, crew_size |-> Unset, director |-> Unset]

(***************************************************************************)
(* clean.run: one action per pass.                                         *)
(***************************************************************************)
Init ==
    /\ raw \in Batches
    /\ df = raw                   \* df = df_raw.copy()
    /\ pc = "drop_irrelevant"
    /\ credits = Null
    /\ out = NoResults
    /\ call = NoCall

\* one pass: the table becomes result, or the pass raises and run ends
Pass(here, next, raises, result) ==
    /\ pc = here
    /\ IF raises
       THEN pc' = "raised" /\ UNCHANGED df
       ELSE pc' = next /\ df' = result
    /\ UNCHANGED <<raw, credits, out, call>>

\* 6. Replace unrealistic values, convert to millions, suppress the ratings of
\* unvoted movies, clean the text fields
ReplaceUnrealistic(d) == CleanText(SuppressVotes(ToMillions(ReplaceZeros(d))))

\* faulty variant: the rows without id or title go first, the duplicates after
DropDuplicatesAndMissing_filter_first(d) == DropDuplicates(DropnaRequired(d))

\* 7. Drop duplicates and critical missing values
DropDuplicatesAndMissing(d) == DropnaRequired(DropDuplicates(d))

StepDropIrrelevant == Pass("drop_irrelevant", "extract", FALSE, DropIrrelevant(df))
StepExtractNested == Pass("extract", "drop_json", ExtractNestedRaises(df), ExtractNested(df))
StepDropRawJson == Pass("drop_json", "rename", FALSE, DropRawJson(df))
StepRenameExtracted == Pass("rename", "convert", FALSE, RenameExtracted(df))
StepConvertTypes == Pass("convert", "replace", ConvertTypesRaises(df), ConvertTypes(df))
StepReplaceUnrealistic == Pass("replace", "dedup", CleanTextRaises(df), ReplaceUnrealistic(df))
StepDropDuplicatesAndMissing ==
    Pass("dedup", "thresh", DropnaRequiredRaises(df), DropDuplicatesAndMissing(df))
StepDropnaThresh == Pass("thresh", "status", FALSE, DropnaThresh(df))
StepStatusFilter == Pass("status", "reorder", FALSE, StatusFilter(df))
StepReorder == Pass("reorder", "reset", FALSE, Reorder(df))
StepResetIndex == Pass("reset", "returned", FALSE, ResetIndex(df))

Next ==
    \/ StepDropIrrelevant
    \/ StepExtractNested
    \/ StepDropRawJson
    \/ StepRenameExtracted
    \/ StepConvertTypes
    \/ StepReplaceUnrealistic
    \/ StepDropDuplicatesAndMissing
    \/ StepDropnaThresh
    \/ StepStatusFilter
    \/ StepReorder
    \/ StepResetIndex

Spec == Init /\ [][Next]_vars

Returned == pc = "returned"

(***************************************************************************)
(* The credits extractors on their own: each is applied once, in any       *)
(* order, to one credits structure.                                        *)
(***************************************************************************)
\* a cast list of n entries, entry u (if u > 0) without a name
CastList(n, u) ==
    [i \in 1..n |-> IF i = u THEN Unnamed ELSE Named("N" \o ToString(i))]

\* the Director entries tried: with a name, without the key, with a null name
DirectorEntries ==
    { Crew("D", "Director"),
      Dict([job |-> Str("Director")]),
      Dict([job |-> Str("Director"), name |-> Null]) }

\* a crew list of m entries, entry p (if p > 0) the Director entry dir
CrewList(m, p, dir) ==
    [i \in 1..m |-> IF i = p THEN dir ELSE Crew("P" \o ToString(i), "Producer")]

CastLists == {CastList(n, u) : n \in 0..MaxCast, u \in 0..MaxCast}
CrewLists == {CrewList(m, p, dir) : m \in 0..MaxCrew, p \in 0..MaxCrew, dir \in DirectorEntries}

\* the crew entries tried in any arrangement: two named Directors, a
\* Director without a name key, two jobs that resemble "Director", no job
CrewEntries ==
    { Crew("D", "Director"), Crew("E", "Director"), Dict([job |-> Str("Director")]),
      Crew("Q", "Assistant Director"), Crew("R", "director"), Named("N") }

MixedCrewLists == SeqsUpTo(CrewEntries, MaxCrew)

CreditsInputs ==
    {Null}
        \cup {Dict([cast |-> List(c), crew |-> List(w)]) : c \in CastLists, w \in CrewLists}
        \cup {Dict([cast |-> List(c)]) : c \in CastLists}
        \cup {Dict([crew |-> List(w)]) : w \in CrewLists \cup MixedCrewLists}

EmptyFrame == [cols |-> <<>>, rows |-> <<>>]

InitCredits ==
    /\ credits \in CreditsInputs
    /\ out = NoResults
    /\ pc = "extractors"
    /\ raw = EmptyFrame
    /\ df = EmptyFrame
    /\ call = NoCall

Apply(field, result) ==
    /\ pc = "extractors"
    /\ out[field] = Unset
    /\ out' = [out EXCEPT ![field] = result]
    /\ UNCHANGED <<pc, df, raw, credits, call>>

ApplyExtractCast == Apply("cast", extract_cast(credits))
ApplyExtractCastSize == Apply("cast_size", extract_cast_size(credits))
ApplyExtractCrewSize == Apply("crew_size", extract_crew_size(credits))
ApplyExtractDirector == Apply("director", extract_director(credits))

NextCredits ==
    \/ ApplyExtractCast
    \/ ApplyExtractCastSize
    \/ ApplyExtractCrewSize
    \/ ApplyExtractDirector

SpecCredits == InitCredits /\ [][NextCredits]_vars

(***************************************************************************)
(* The four list extractors on their own: each is applied once, in any     *)
(* order, to one value (call.input); call holds their results.             *)
(***************************************************************************)
MaxList == 3      \* elements of a list given to the list extractors

\* the elements tried: maps with a name, without one, with a null name
ListEntries == {Named("X"), Named("Y"), Unnamed, Dict([name |-> Null])}

ListInputs ==
    {Null, Str("Drama"), IntV(3), Named("X")}
        \cup {List(l) : l \in SeqsUpTo(ListEntries, MaxList)}

InitLists ==
    /\ call \in {[fn |-> "list extractors", input |-> v,
                  genres |-> Unset, spoken_languages |-> Unset,
                  production_countries |-> Unset, production_companies |-> Unset] :
                    v \in ListInputs}
    /\ pc = "list_extractors"
    /\ credits = Null
    /\ out = NoResults
    /\ raw = EmptyFrame
    /\ df = EmptyFrame

ApplyList(field, result) ==
    /\ pc = "list_extractors"
    /\ call[field] = Unset
    /\ call' = [call EXCEPT ![field] = result]
    /\ UNCHANGED <<pc, df, raw, credits, out>>

ApplyExtractGenres == ApplyList("genres", extract_genres(call.input))
ApplyExtractSpokenLanguages ==
    ApplyList("spoken_languages", extract_spoken_languages(call.input))
ApplyExtractProductionCountries ==
    ApplyList("production_countries", extract_production_countries(call.input))
ApplyExtractProductionCompanies ==
    ApplyList("production_companies", extract_production_companies(call.input))

NextLists ==
    \/ ApplyExtractGenres
    \/ ApplyExtractSpokenLanguages
    \/ ApplyExtractProductionCountries
    \/ ApplyExtractProductionCompanies

SpecLists == InitLists /\ [][NextLists]_vars

(***************************************************************************)
(* Three invocations of clean.run, one after the other: on the first k     *)
(* records of a batch, on the records after them, and on the whole batch   *)
(* (each part a table with the columns of the batch).  The passes are the  *)
(* actions of Spec; the outcomes of the first two invocations are kept in  *)
(* call.                                                                   *)
(***************************************************************************)
Table(d) == [t |-> "table", table |-> d]

\* rows lo..hi of the batch d, labels kept
Slice(d, lo, hi) == [d EXCEPT !.rows = SubSeq(d.rows, lo, hi)]

SplitRecords ==
    { Movie,
      With3(Movie, "title", Str("B"), "budget", IntV(0), "revenue", Str("7000000")),
      With1(Movie, "id", IntV(2)),
      With2(Movie, "id", Str("2"), "title", Str("B")),
      With1(Movie, "title", Null),
      With1(Movie, "id", Null),
      With1(Movie, "status", Str("Post Production")),
      With2(Sparse, "id", IntV(2), "popularity", Null),
      With2(Movie, "id", IntV(3), "credits", Dict([cast |-> Null])) }

SplitBatches == {Frame(FullCols, b) : b \in SeqsUpTo(SplitRecords, MaxBatch)}

InitSplit ==
    /\ raw \in SplitBatches
    /\ \E k \in 0..Len(raw.rows) :
          /\ call = [fn |-> "run", on |-> "prefix", k |-> k, a |-> Unset, b |-> Unset]
          /\ df = Slice(raw, 1, k)
    /\ pc = "drop_irrelevant"
    /\ credits = Null
    /\ out = NoResults

\* what the invocation that has just ended produced
Outcome == IF pc = "raised" THEN Raise("Exception") ELSE Table(df)

\* the invocation on the prefix has ended: run is called on the suffix
RunOnSuffix ==
    /\ pc \in {"returned", "raised"}
    /\ call.on = "prefix"
    /\ call' = [call EXCEPT !.a = Outcome, !.on = "suffix"]
    /\ df' = Slice(raw, call.k + 1, Len(raw.rows))
    /\ pc' = "drop_irrelevant"
    /\ UNCHANGED <<raw, credits, out>>

\* the invocation on the suffix has ended: run is called on the whole batch
RunOnWhole ==
    /\ pc \in {"returned", "raised"}
    /\ call.on = "suffix"
    /\ call' = [call EXCEPT !.b = Outcome, !.on = "whole"]
    /\ df' = raw
    /\ pc' = "drop_irrelevant"
    /\ UNCHANGED <<raw, credits, out>>

NextSplit ==
    \/ Next
    \/ RunOnSuffix
    \/ RunOnWhole

SpecSplit == InitSplit /\ [][NextSplit]_vars

(***************************************************************************)
(* analysis.add_kpis on a table of float columns.  Float arithmetic: a      *)
(* missing operand gives NaN (Null), x / 0 gives an infinity of the sign   *)
(* of x for x # 0 and NaN for x = 0; no operation raises.                  *)
(***************************************************************************)
Inf(sign) == [t |-> "inf", sign |-> sign]

\* n / d as a number in lowest terms with a positive denominator (d # 0)
Fraction(n, d) ==
    LET g == GCD(Abs(n), Abs(d))
        sgn == IF d < 0 THEN -1 ELSE 1
    IN  Num(sgn * (n \div g), sgn * (d \div g))

\* a - b for two cells of float columns
FloatSub(a, b) ==
    IF a.t # "num" \/ b.t # "num" THEN Null
    ELSE Fraction(a.n * b.d - b.n * a.d, a.d * b.d)

\* a / b for two cells of float columns
FloatDiv(a, b) ==
    IF a.t # "num" \/ b.t # "num" THEN Null
    ELSE IF b.n = 0
         THEN IF a.n = 0 THEN Null ELSE Inf(IF a.n < 0 THEN -1 ELSE 1)
    ELSE Fraction(a.n * b.d, a.d * b.n)

\* df['revenue_musd'] or df['budget_musd'] of a table without that column
add_kpis_raises(d) == ~HasCol(d, "revenue_musd") \/ ~HasCol(d, "budget_musd")

add_kpis(d) ==
    LET profit == AssignCol(d, "profit_musd",
                      [i \in DOMAIN d.rows |->
                          FloatSub(d.rows[i].r["revenue_musd"], d.rows[i].r["budget_musd"])])
    IN  AssignCol(profit, "roi",
            [i \in DOMAIN profit.rows |->
                FloatDiv(profit.rows[i].r["revenue_musd"], profit.rows[i].r["budget_musd"])])

MaxTable == 2     \* rows of a table given to add_kpis

\* the amounts (millions of USD) tried in the two financial columns
Amounts == {Null, IntV(0), IntV(5), Num(7, 2)}

KpiCols == <<"id", "title", "budget_musd", "revenue_musd">>

KpiRecords ==
    {[c \in Range(KpiCols) |->
        CASE c = "id" -> IntV(1)
          [] c = "title" -> Str("A")
          [] c = "budget_musd" -> b
          [] c = "revenue_musd" -> v] : b \in Amounts, v \in Amounts}

KpiTables ==
    {Frame(cols, recs) : cols \in {KpiCols, Without(KpiCols, {"budget_musd"})},
                         recs \in SeqsUpTo(KpiRecords, MaxTable)}

InitKpis ==
    /\ raw \in KpiTables
    /\ df = EmptyFrame
    /\ pc = "add_kpis"
    /\ call = [fn |-> "add_kpis"]
    /\ credits = Null
    /\ out = NoResults

\* the whole of add_kpis: the copy with the two columns, or KeyError
AddKpis ==
    /\ pc = "add_kpis"
    /\ IF add_kpis_raises(raw)
       THEN pc' = "kpis_raised" /\ UNCHANGED df
       ELSE pc' = "kpis_returned" /\ df' = add_kpis(raw)
    /\ UNCHANGED <<raw, credits, out, call>>

NextKpis == AddKpis

SpecKpis == InitKpis /\ [][NextKpis]_vars

(***************************************************************************)
(* The query layer: analysis.get_top_movies and queries.top_directors.     *)
(* A KeyError is recorded with what its message says: the column names it  *)
(* names and, if it lists the available columns, that list.                *)
(***************************************************************************)
KeyError(names, listed, available) ==
    [t |-> "raise", e |-> "KeyError", names |-> names,
     listed |-> listed, available |-> available]

\* a < b for two numbers
Less(a, b) == a.n * b.d < b.n * a.d

\* the row nlargest (nsmallest if ascending) takes first: an extreme value of
\* the metric, the earliest row among equals
FirstExtreme(rows, metric, ascending) ==
    CHOOSE i \in DOMAIN rows :
        \A j \in DOMAIN rows \ {i} :
            LET vi == rows[i].r[metric]
                vj == rows[j].r[metric]
            IN  \/ IF ascending THEN Less(vi, vj) ELSE Less(vj, vi)
                \/ vi = vj /\ i < j

Remove(rows, i) == SubSeq(rows, 1, i - 1) \o SubSeq(rows, i + 1, Len(rows))

\* df.nlargest(n, metric) / df.nsmallest(n, metric) on rows without NaN
RECURSIVE Extremes(_, _, _, _)
Extremes(rows, n, metric, ascending) ==
    IF n = 0 \/ Len(rows) = 0 THEN <<>>
    ELSE LET i == FirstExtreme(rows, metric, ascending)
         IN  <<rows[i]>> \o Extremes(Remove(rows, i), n - 1, metric, ascending)

NoFilter == [given |-> FALSE, mask |-> <<>>]
NoDisplayCols == [given |-> FALSE, cols |-> <<>>]

\* the validation of get_top_movies: the metric must be a column
get_top_movies_raises(d, metric) == ~HasCol(d, metric)

get_top_movies_error(d, metric) == KeyError(<<metric>>, TRUE, d.cols)

\* get_top_movies past its validation.  The metric column is coerced with
\* to_numeric unless its dtype is numeric, and to_numeric leaves the cells of
\* a numeric column as they are.
get_top_movies(d, metric, top_n, ascending, filter_condition, display_cols) ==
    LET display == IF display_cols.given THEN display_cols.cols
                   ELSE <<"title", metric, "release_date", "genres">>
        filtered == IF filter_condition.given THEN FilterRows(d, filter_condition.mask) ELSE d
        coerced == AssignCol(filtered, metric,
                       [i \in DOMAIN filtered.rows |-> ToNumeric(filtered.rows[i].r[metric])])
        valid == FilterRows(coerced,
                       [i \in DOMAIN coerced.rows |-> ~IsNull(coerced.rows[i].r[metric])])
        result == [valid EXCEPT !.rows = Extremes(valid.rows, top_n, metric, ascending)]
        shown(c) == HasCol(result, c)
        existing(c) == HasCol(d, c)
    IN  IF Len(valid.rows) = 0
        THEN [cols |-> SelectSeq(display, existing), rows |-> <<>>]
        ELSE IF SelectSeq(display, shown) = <<>>
             THEN SelectColumns(result, Take(result.cols, 4))
        ELSE SelectColumns(result, display)

\* x rounded to 2 decimals, halves to the even neighbour
Round2(x) ==
    IF x.t # "num" THEN x
    ELSE LET m == x.n * 100
             q == m \div x.d
             r == m - q * x.d
             up == 2 * r > x.d \/ (2 * r = x.d /\ q % 2 = 1)
         IN  Fraction(IF up THEN q + 1 ELSE q, 100)

FloatAdd(a, b) == Fraction(a.n * b.d + b.n * a.d, a.d * b.d)

\* series.sum(): missing values are skipped, the empty sum is 0
RECURSIVE SumCells(_)
SumCells(cells) ==
    IF Len(cells) = 0 THEN IntV(0)
    ELSE IF cells[1].t # "num" THEN SumCells(Tail(cells))
    ELSE FloatAdd(cells[1], SumCells(Tail(cells)))

\* series.count(): the values that are not missing
CountCells(cells) == Cardinality({i \in DOMAIN cells : ~IsNull(cells[i])})

\* series.mean(): missing values are skipped, NaN when nothing is left
MeanCells(cells) ==
    IF CountCells(cells) = 0 THEN Null
    ELSE LET total == SumCells(cells)
         IN  Fraction(total.n, total.d * CountCells(cells))

\* the director names of the model in sorted order (groupby sorts its keys)
DirectorOrder == <<"D", "E">>

\* the columns top_directors aggregates
AggCols == <<"id", "revenue_musd", "vote_average">>

\* df[df['director'] != 'Unknown']: a missing director is not 'Unknown'
KnownDirectors(d) ==
    FilterRows(d, [i \in DOMAIN d.rows |-> d.rows[i].r["director"] # Str("Unknown")])

\* the lookup that fails in top_directors, if one does: df['director'], or
\* (when a row is left to group) the aggregated columns
top_directors_raises(d) ==
    \/ ~HasCol(d, "director")
    \/ /\ Len(KnownDirectors(d).rows) > 0
       /\ \E c \in Range(AggCols) : ~HasCol(d, c)

top_directors_error(d) ==
    LET missing(c) == ~HasCol(d, c)
    IN  IF ~HasCol(d, "director") THEN KeyError(<<"director">>, FALSE, <<>>)
        ELSE KeyError(SelectSeq(AggCols, missing), FALSE, <<>>)

\* top_directors where no lookup fails: one row per director (the index
\* label), missing directors in no group
top_directors(d, min_movies) ==
    LET directors_df == KnownDirectors(d)
        grouped(name) == \E i \in DOMAIN directors_df.rows :
                            directors_df.rows[i].r["director"] = Str(name)
        cells(name, c) ==
            LET of(w) == w.r["director"] = Str(name)
                members == SelectSeq(directors_df.rows, of)
            IN  [i \in DOMAIN members |-> members[i].r[c]]
        names == SelectSeq(DirectorOrder, grouped)
        director_stats ==
            [k \in DOMAIN names |->
                [idx |-> Str(names[k]), src |-> 0,
                 r |-> [num_movies |-> IntV(CountCells(cells(names[k], "id"))),
                        total_revenue |-> Round2(SumCells(cells(names[k], "revenue_musd"))),
                        mean_rating |-> Round2(MeanCells(cells(names[k], "vote_average")))]]]
        enough(w) == w.r["num_movies"].n >= min_movies
        qualified == SelectSeq(director_stats, enough)
    IN  IF Len(directors_df.rows) = 0 THEN EmptyFrame
        ELSE [cols |-> <<"num_movies", "total_revenue", "mean_rating">>,
              rows |-> Extremes(qualified, Len(qualified), "total_revenue", FALSE)]

\* the tables queried: rows of a clean table, ids by position
QueryCols == <<"id", "title", "release_date", "genres", "revenue_musd",
               "vote_average", "director">>

QueryRecord(title, director, revenue, rating) ==
    [c \in Range(QueryCols) |->
        CASE c = "id" -> Null
          [] c = "title" -> Str(title)
          [] c = "release_date" -> Date("1999-03-31")
          [] c = "genres" -> Str("Drama")
          [] c = "revenue_musd" -> revenue
          [] c = "vote_average" -> rating
          [] c = "director" -> director]

QueryRecords ==
    { QueryRecord("A", Str("D"), IntV(5), IntV(6)),
      QueryRecord("B", Str("D"), Num(7, 2), Num(15, 2)),
      QueryRecord("C", Str("E"), Null, IntV(6)),
      QueryRecord("F", Str("Unknown"), IntV(5), Null),
      QueryRecord("G", Str("E"), IntV(5), Num(15, 2)),
      QueryRecord("H", Null, Num(7, 2), IntV(6)) }

QuerySchemas ==
    { QueryCols,
      Without(QueryCols, {"director"}),
      Without(QueryCols, {"revenue_musd"}),
      <<"id", "title", "vote_average">> }

QueryFrame(cols, recs) ==
    LET d == Frame(cols, recs)
    IN  AssignCol(d, "id", [i \in DOMAIN d.rows |-> IntV(i)])

QueryTables ==
    {QueryFrame(cols, recs) : cols \in QuerySchemas, recs \in SeqsUpTo(QueryRecords, MaxTable)}

\* the arguments tried
Metrics == {"revenue_musd", "vote_average", "title", "roi"}
TopNs == {1, 5}
Filters(d) ==
    {NoFilter,
     [given |-> TRUE, mask |-> [i \in DOMAIN d.rows |-> FALSE]],
     [given |-> TRUE, mask |-> [i \in DOMAIN d.rows |-> i % 2 = 1]]}
DisplayCols ==
    {NoDisplayCols,
     [given |-> TRUE, cols |-> <<"title", "budget_musd">>],
     [given |-> TRUE, cols |-> <<"poster_path">>]}
MinMovies == {1, 2}

InitQuery ==
    /\ raw \in QueryTables
    /\ df = EmptyFrame
    /\ pc = "query"
    /\ call = NoCall
    /\ credits = Null
    /\ out = NoResults

\* one query call: its result table, or the error it raises
Query(args, raises, error, result) ==
    /\ pc = "query"
    /\ IF raises
       THEN /\ pc' = "query_raised"
            /\ call' = [args |-> args, error |-> error]
            /\ UNCHANGED df
       ELSE /\ pc' = "query_returned"
            /\ call' = [args |-> args, error |-> Null]
            /\ df' = result
    /\ UNCHANGED <<raw, credits, out>>

GetTopMovies ==
    \E metric \in Metrics, top_n \in TopNs, ascending \in BOOLEAN,
       filter_condition \in Filters(raw), display_cols \in DisplayCols :
        Query([fn |-> "get_top_movies", metric |-> metric, top_n |-> top_n,
               ascending |-> ascending, filter_condition |-> filter_condition,
               display_cols |-> display_cols],
              get_top_movies_raises(raw, metric),
              get_top_movies_error(raw, metric),
              get_top_movies(raw, metric, top_n, ascending, filter_condition, display_cols))

TopDirectors ==
    \E min_movies \in MinMovies :
        Query([fn |-> "top_directors", min_movies |-> min_movies],
              top_directors_raises(raw),
              top_directors_error(raw),
              top_directors(raw, min_movies))

NextQuery ==
    \/ GetTopMovies
    \/ TopDirectors

SpecQuery == InitQuery /\ [][NextQuery]_vars

(***************************************************************************)
(* extract.run: the loop over MOVIE_IDS, one action per iteration.         *)
(* call.i is the position of the next id, call.raw_movies_data the list    *)
(* built so far, call.requested (a history field) the requests made with   *)
(* what each got.                                                          *)
(***************************************************************************)
MaxIds == 5       \* ids in MOVIE_IDS

MOVIE_IDS == [i \in 1..MaxIds |-> 10 + i]

\* what requests.get gives: a response with a status code, or an exception
Response(status_code) == [t |-> "response", status_code |-> status_code]
Gets == {Response(c) : c \in {200, 404, 401, 429, 500}} \cup {Raise("ConnectionError")}

\* response.json() for movie movie_id
Body(movie_id) == Dict([id |-> IntV(movie_id), title |-> Str("T")])

\* fetch_movie, given what requests.get gives
fetch_movie(movie_id, response) ==
    IF IsRaise(response) THEN response
    ELSE IF response.status_code = 200 THEN Body(movie_id)
    ELSE IF response.status_code = 404 THEN Null
    ELSE Raise("Exception")

\* `if movie:` for a dict or None
Truthy(movie) == movie.t = "dict" /\ DOMAIN movie.m # {}

\* pd.DataFrame(raw_movies_data) for responses with the keys id and title
DataFrameOf(records) ==
    IF Len(records) = 0 THEN EmptyFrame
    ELSE Frame(<<"id", "title">>, [i \in DOMAIN records |-> records[i].m])

InitFetch ==
    /\ call = [fn |-> "extract.run", i |-> 1, raw_movies_data |-> <<>>, requested |-> <<>>]
    /\ pc = "fetch"
    /\ df = EmptyFrame
    /\ raw = EmptyFrame
    /\ credits = Null
    /\ out = NoResults

\* one iteration: the request for MOVIE_IDS[i] and what run does with it
Iteration(response) ==
    LET mid == MOVIE_IDS[call.i]
        movie == fetch_movie(mid, response)
        made == Append(call.requested, [id |-> mid, got |-> response])
    IN  /\ pc = "fetch"
        /\ call.i <= Len(MOVIE_IDS)
        /\ IF IsRaise(movie)
           THEN /\ pc' = "fetch_raised"
                /\ call' = [call EXCEPT !.requested = made]
           ELSE /\ pc' = pc
                /\ call' = [call EXCEPT
                               !.requested = made,
                               !.i = @ + 1,
                               !.raw_movies_data = IF Truthy(movie) THEN Append(@, movie) ELSE @]
        /\ UNCHANGED <<df, raw, credits, out>>

FetchNext == \E response \in Gets : Iteration(response)

\* the loop is over: df_raw = pd.DataFrame(raw_movies_data); return df_raw
FetchReturn ==
    /\ pc = "fetch"
    /\ call.i > Len(MOVIE_IDS)
    /\ df' = DataFrameOf(call.raw_movies_data)
    /\ pc' = "fetch_returned"
    /\ UNCHANGED <<raw, credits, out, call>>

NextFetch ==
    \/ FetchNext
    \/ FetchReturn

SpecFetch == InitFetch /\ [][NextFetch]_vars

(***************************************************************************)
(* Properties.                                                             *)
(***************************************************************************)
\* the raw record an output row derives from
Source(w) == raw.rows[w.src].r
Rows == Range(df.rows)

\* C1: when run returns, no two rows of the returned table have the same id.
C1_UniqueIds ==
    Returned =>
        \A i, j \in DOMAIN df.rows :
            i # j => df.rows[i].r["id"] # df.rows[j].r["id"]

\* two records whose ids coerce to the same number and whose titles differ
\* went in, one row with the first title came out
C1_Witness ==
    /\ Returned
    /\ Len(raw.rows) = 2
    /\ raw.rows[1].r["id"] = IntV(2) /\ raw.rows[2].r["id"] = Str("2")
    /\ raw.rows[1].r["title"] = Str("A") /\ raw.rows[2].r["title"] = Str("B")
    /\ Len(df.rows) = 1
    /\ df.rows[1].r["id"] = IntV(2) /\ df.rows[1].r["title"] = Str("A")

\* C2: when run returns, every row has a non-null id and a non-null title; a
\* record whose id fails numeric coercion or whose title is null is in no row.
C2_RequiredFields ==
    Returned =>
        \A w \in Rows :
            /\ ~IsNull(w.r["id"]) /\ ~IsNull(w.r["title"])
            /\ Source(w)["id"].t \in {"num", "str"}
            /\ Source(w)["id"].t = "str" => IsNumericString(Source(w)["id"].s)
            /\ ~IsNull(Source(w)["title"])

\* a record with an unparseable id went in before a good record, and only
\* the good one came out
C2_Witness ==
    /\ Returned
    /\ Len(raw.rows) = 2
    /\ raw.rows[1].r["id"] = Str("tt5")
    /\ Len(df.rows) = 1 /\ df.rows[1].src = 2

\* C3: with a status column in the input, every returned row derives from a
\* record whose status is exactly "Released", and the returned table has no
\* status column; without one, the status pass changes nothing and raises
\* nothing.
C3_StatusFilter ==
    /\ [](Returned =>
            /\ ~HasCol(df, "status")
            /\ HasCol(raw, "status") =>
                  \A w \in Rows : Source(w)["status"] = Str("Released"))
    /\ [][(pc = "status" /\ ~HasCol(raw, "status")) =>
            (pc' = "reorder" /\ df' = df)]_vars

\* a complete "Post Production" record was excluded and a released one kept
C3_Witness ==
    /\ Returned
    /\ Len(raw.rows) = 2
    /\ raw.rows[1].r = With1(Movie, "status", Str("Post Production"))
    /\ raw.rows[2].r["status"] = Str("Released")
    /\ Len(df.rows) = 1 /\ df.rows[1].src = 2

\* the non-null values of a row of df among the columns of df
NonNulls(w) == Cardinality({c \in Range(df.cols) : w.r[c].t # "null"})

\* C4: the completeness pass keeps a row if and only if it has at least 10
\* non-null values over all columns present at that point, which still
\* include the raw budget, revenue and status, the derived budget_musd and
\* revenue_musd, and unlisted pass-through columns.
C4_CompletenessPass ==
    [][pc = "thresh" =>
        /\ {"budget", "revenue", "budget_musd", "revenue_musd"} \subseteq Range(df.cols)
        /\ HasCol(raw, "status") => HasCol(df, "status")
        /\ HasCol(raw, "backdrop_path") => HasCol(df, "backdrop_path")
        /\ \A i \in DOMAIN df.rows :
              (\E k \in DOMAIN df'.rows : df'.rows[k] = df.rows[i])
                  <=> NonNulls(df.rows[i]) >= 10
        /\ \A k \in DOMAIN df'.rows : \E i \in DOMAIN df.rows : df'.rows[k] = df.rows[i]
      ]_vars

\* the completeness pass has kept a record with exactly 10 non-null values
\* (three of them budget, revenue and status) and dropped one with 9
C4_Witness ==
    /\ pc = "status"
    /\ Len(raw.rows) = 2
    /\ raw.rows[1].r = Sparse
    /\ raw.rows[2].r = With2(Sparse, "id", IntV(2), "popularity", Null)
    /\ Len(df.rows) = 1 /\ df.rows[1].src = 1
    /\ NonNulls(df.rows[1]) = 10

\* C5: every returned row has at least 10 non-null values among the columns
\* of the returned table.
C5_OutputCompleteness ==
    Returned => \A w \in Rows : NonNulls(w) >= 10

\* the columns run creates
CreatedCols ==
    {"collection_name", "genres", "spoken_languages", "production_countries",
     "production_companies", "cast", "cast_size", "crew_size", "director",
     "budget_musd", "revenue_musd"}

Position(c) == CHOOSE i \in DOMAIN final_column_order : final_column_order[i] = c

\* C6: the returned columns are the canonical list restricted to the columns
\* present after transformation, in canonical order; no other column (raw
\* budget, revenue, status, an unknown input column) is returned, and an
\* absent canonical column is omitted.
C6_CanonicalColumns ==
    Returned =>
        /\ \A i \in DOMAIN df.cols : df.cols[i] \in Range(final_column_order)
        /\ \A i, j \in DOMAIN df.cols :
              i < j => Position(df.cols[i]) < Position(df.cols[j])
        /\ \A c \in Range(final_column_order) :
              HasCol(df, c) <=> (c \in CreatedCols \/ HasCol(raw, c))
        /\ \A c \in {"budget", "revenue", "status", "backdrop_path"} : ~HasCol(df, c)
        /\ \A w \in Rows : DOMAIN w.r = Range(df.cols)

\* a batch with an unknown column and without two canonical ones was cleaned
C6_Witness ==
    /\ Returned
    /\ HasCol(raw, "backdrop_path")
    /\ ~HasCol(raw, "original_language") /\ ~HasCol(raw, "poster_path")
    /\ Len(df.cols) = 20
    /\ Len(df.rows) >= 1

\* v is the number x / 1,000,000 (v in lowest terms)
IsMillionth(v, x) == v.t = "num" /\ v.n * x.d * 1000000 = x.n * v.d

\* the musd value expected from a raw budget or revenue
MusdOk(v, rawv) ==
    LET x == ToNumeric(rawv)
    IN  /\ IF x.t = "null" \/ x.n = 0 THEN v = Null ELSE IsMillionth(v, x)
        /\ v.t = "num" => v.n # 0
        /\ rawv \in {IntV(0), Str("0"), Str("abc"), Null} => v = Null

\* C7: in every returned row budget_musd is null when the coerced budget is
\* zero or null and budget / 1,000,000 otherwise, likewise revenue_musd; so
\* neither is ever 0.
C7_Millions ==
    Returned =>
        \A w \in Rows :
            /\ MusdOk(w.r["budget_musd"], Source(w)["budget"])
            /\ MusdOk(w.r["revenue_musd"], Source(w)["revenue"])

\* a record with budget 0 and revenue "7000000" came out with a null
\* budget_musd and a revenue_musd of 7
C7_Witness ==
    /\ Returned
    /\ \E w \in Rows :
          /\ Source(w)["budget"] = IntV(0)
          /\ Source(w)["revenue"] = Str("7000000")
          /\ w.r["budget_musd"] = Null
          /\ w.r["revenue_musd"] = IntV(7)
    /\ \E w \in Rows :
          /\ Source(w)["revenue"] = IntV(1)
          /\ w.r["revenue_musd"] = Num(1, 1000000)

\* C8: no returned row has vote_count 0 with a non-null vote_average, and a
\* row whose vote_count is not 0 (a null one included) has the coerced source
\* vote_average unchanged.
C8_VoteSuppression ==
    Returned =>
        \A w \in Rows :
            LET zero == w.r["vote_count"].t = "num" /\ w.r["vote_count"].n = 0
            IN  /\ zero => IsNull(w.r["vote_average"])
                /\ ~zero => w.r["vote_average"] = ToNumeric(Source(w)["vote_average"])

\* a record with vote_count 0 and vote_average 7.5 came out with a null
\* vote_average, one with a null vote_count kept its 7.5
C8_Witness ==
    /\ Returned
    /\ \E w \in Rows :
          /\ Source(w)["vote_count"] = IntV(0)
          /\ Source(w)["vote_average"] = Num(15, 2)
          /\ IsNull(w.r["vote_average"])
    /\ \E w \in Rows :
          /\ IsNull(w.r["vote_count"])
          /\ w.r["vote_average"] = Num(15, 2)

Min(a, b) == IF a < b THEN a ELSE b
AllNamed(items) == \A i \in DOMAIN items : KeyIn("name", items[i])

\* C9: for a cast list of n entries the cast field is the pipe-joined names
\* of the first min(5, n) entries (entries 6 and beyond never contribute),
\* cast_size is n and crew_size is the full crew length; a fully named cast
\* of 5 or more entries gives exactly the first 5 names.
C9_CastCapAndSizes ==
    credits.t = "dict" =>
        /\ (KeyIn("cast", credits) /\ out.cast # Unset) =>
              LET c == credits.m["cast"].items
                  head == SubSeq(c, 1, Min(5, Len(c)))
              IN  /\ out.cast = Str(JoinStr(NamesOf(head)))
                  /\ (Len(c) >= 5 /\ AllNamed(head)) => out.cast = Str("N1|N2|N3|N4|N5")
                  /\ (Len(c) >= 5 /\ ~KeyIn("name", c[2])) => out.cast = Str("N1|N3|N4|N5")
        /\ (KeyIn("cast", credits) /\ out.cast_size # Unset) =>
              out.cast_size = IntV(Len(credits.m["cast"].items))
        /\ (KeyIn("crew", credits) /\ out.crew_size # Unset) =>
              out.crew_size = IntV(Len(credits.m["crew"].items))

\* the extractors have been applied to a fully named cast of 12 and a crew of 3
C9_Witness ==
    /\ credits.t = "dict" /\ KeyIn("cast", credits) /\ KeyIn("crew", credits)
    /\ Len(credits.m["cast"].items) = 12
    /\ AllNamed(credits.m["cast"].items)
    /\ out.cast = Str("N1|N2|N3|N4|N5")
    /\ out.cast_size = IntV(12)
    /\ out.crew_size = IntV(3)

\* C10: in every returned table the director of every row is a non-null
\* string, whatever the shape of the credits structure.
C10_DirectorIsString ==
    Returned => \A w \in Rows : w.r["director"].t = "str"

\* a source list that is absent (not a list) or empty
ListAbsent(v) == v.t # "list" \/ Len(v.items) = 0
CastAbsent(cr) == ~KeyIn("cast", cr) \/ ListAbsent(cr.m["cast"])

\* C11: in every returned row each of genres, spoken_languages,
\* production_countries and production_companies is null when its source list
\* is absent or empty, and cast is null when the credits structure has no cast
\* list or an empty one.
C11_EmptySourcesNull ==
    Returned =>
        \A w \in Rows :
            /\ \A c \in {"genres", "spoken_languages", "production_countries",
                          "production_companies"} :
                  ListAbsent(Source(w)[c]) => IsNull(w.r[c])
            /\ CastAbsent(Source(w)["credits"]) => IsNull(w.r["cast"])

\* the columns run indexes without testing for their presence
IndexedCols ==
    {Extractions[k][2] : k \in DOMAIN Extractions}
        \cup Range(numeric_cols)
        \cup {"release_date", "overview", "tagline", "id", "title"}

\* C12: on a batch that has every column run indexes, run never raises,
\* whatever the shape of the nested fields of its records.
C12_MalformedTolerated ==
    (\A c \in IndexedCols : HasCol(raw, c)) => pc # "raised"

\* some extractor raises on some record of the batch d
RecordRaises(d) ==
    \E k \in DOMAIN Extractions, i \in DOMAIN d.rows :
        /\ HasCol(d, Extractions[k][2])
        /\ IsRaise(ExtractorFor(Extractions[k][1], d.rows[i].r[Extractions[k][2]]))

\* C13: on a batch of well-shaped records that has the columns id and title,
\* run never raises, whichever other column is missing.
C13_OnlyIdTitleFatal ==
    (HasCol(raw, "id") /\ HasCol(raw, "title") /\ ~RecordRaises(raw)) => pc # "raised"

\* the columns a query call is asked to use
AskedCols(args) ==
    IF args.fn = "get_top_movies" THEN {args.metric}
    ELSE {"director"} \cup Range(AggCols)

\* C15: a query call asked to use a column the table lacks raises a lookup
\* failure whose message names a missing column and lists the available
\* columns, and returns no table.
C15_LookupFailure ==
    (pc \in {"query_returned", "query_raised"}
        /\ \E c \in AskedCols(call.args) : ~HasCol(raw, c)) =>
            /\ pc = "query_raised"
            /\ df = EmptyFrame
            /\ \E k \in DOMAIN call.error.names :
                  /\ call.error.names[k] \in AskedCols(call.args)
                  /\ ~HasCol(raw, call.error.names[k])
            /\ call.error.listed
            /\ call.error.available = raw.cols

\* the rows of a table without their index labels
Contents(d) == [i \in DOMAIN d.rows |-> [src |-> d.rows[i].src, r |-> d.rows[i].r]]

\* the three invocations have ended
SplitDone == call.on = "whole" /\ pc \in {"returned", "raised"}

\* the three invocations have returned, the whole batch's table in df
SplitReturned == SplitDone /\ pc = "returned" /\ call.a.t = "table" /\ call.b.t = "table"

\* the rows of the two parts' tables one after the other are the rows of the
\* whole batch's table, and the columns agree
ConcatIsWhole ==
    /\ Contents(call.a.table) \o Contents(call.b.table) = Contents(df)
    /\ call.a.table.cols = df.cols /\ call.b.table.cols = df.cols

\* some id (after numeric coercion) occurs on both sides of the split
SharedId ==
    \E i \in 1..call.k, j \in (call.k + 1)..Len(raw.rows) :
        /\ ~IsNull(ToNumeric(raw.rows[i].r["id"]))
        /\ ToNumeric(raw.rows[i].r["id"]) = ToNumeric(raw.rows[j].r["id"])

\* C16: for every batch and every split of it into a prefix and a suffix, the
\* table of the prefix followed by the table of the suffix has the rows of
\* the table of the whole batch, in the same order.
C16_SplitConcat == SplitReturned => ConcatIsWhole

\* C16, amended: the same, for the splits that leave no id (after numeric
\* coercion) on both sides; and then run raises on the whole batch exactly
\* when it raises on a part.
C16_SplitConcatDisjoint ==
    /\ (SplitReturned /\ ~SharedId) => ConcatIsWhole
    /\ (SplitDone /\ pc = "raised") => (IsRaise(call.a) \/ IsRaise(call.b))
    /\ (SplitDone /\ pc = "returned") => (call.a.t = "table" /\ call.b.t = "table")

\* a batch of two records with different ids and the same title was split
\* between them, and each part's row is in the table of the whole
C16_Witness ==
    /\ SplitReturned /\ ~SharedId
    /\ call.k = 1 /\ Len(raw.rows) = 2
    /\ raw.rows[1].r["title"] = raw.rows[2].r["title"]
    /\ Len(call.a.table.rows) = 1 /\ Len(call.b.table.rows) = 1
    /\ Len(df.rows) = 2

\* the ids whose request got a 200 response, in request order
RECURSIVE Successful(_)
Successful(requested) ==
    IF Len(requested) = 0 THEN <<>>
    ELSE IF requested[1].got = Response(200)
         THEN <<requested[1].id>> \o Successful(Tail(requested))
    ELSE Successful(Tail(requested))

\* C17: extract.run never aborts: a failed request (404, another status, an
\* error) is skipped and the next id is requested; when run returns, every
\* id of MOVIE_IDS has been requested in list order and the table holds
\* exactly the 200 responses, in that order.
C17_FailuresSkipped ==
    /\ pc # "fetch_raised"
    /\ \A k \in DOMAIN call.requested : call.requested[k].id = MOVIE_IDS[k]
    /\ pc = "fetch_returned" =>
          /\ Len(call.requested) = Len(MOVIE_IDS)
          /\ [k \in DOMAIN df.rows |-> df.rows[k].r["id"]]
                = [k \in DOMAIN Successful(call.requested) |->
                      IntV(Successful(call.requested)[k])]

ListFields == {"genres", "spoken_languages", "production_countries", "production_companies"}

\* a list of maps whose names, where present, are strings
NamesAreStrings(items) ==
    \A i \in DOMAIN items :
        items[i].t = "dict" /\ (KeyIn("name", items[i]) => items[i].m["name"].t = "str")

\* C19: each of the four list extractors returns null exactly when its input
\* is not a list or is an empty list; for a non-empty list of maps it returns
\* the names of the elements that have one, in order, joined by "|", which is
\* the empty string (not null) when no element has a name.
C19_ListExtractors ==
    \A f \in ListFields :
        call[f] # Unset =>
            LET v == call.input
            IN  /\ IsNull(call[f]) <=> (v.t # "list" \/ Len(v.items) = 0)
                /\ (v.t = "list" /\ Len(v.items) > 0 /\ NamesAreStrings(v.items)) =>
                      /\ call[f] = Str(JoinStr(NamesOf(v.items)))
                      /\ (\A i \in DOMAIN v.items : ~KeyIn("name", v.items[i])) =>
                            call[f] = Str("")
                /\ v = List(<<Named("X"), Unnamed, Named("Y")>>) => call[f] = Str("X|Y")
                /\ v = List(<<Named("Y"), Named("X"), Named("Y")>>) => call[f] = Str("Y|X|Y")

\* the four extractors have been applied to a list of nameless maps and gave
\* the empty string
C19_Witness ==
    /\ call.input = List(<<Unnamed, Unnamed>>)
    /\ \A f \in ListFields : call[f] = Str("")

\* the positions of the crew entries whose job is exactly "Director"
Directors(crew) ==
    {i \in DOMAIN crew : "job" \in DOMAIN crew[i].m /\ crew[i].m["job"] = Str("Director")}

\* C20: extract_director decides on the first crew entry whose job is exactly
\* "Director": it returns that entry's name, or "Unknown" if the entry has no
\* name key, whatever later Director entries hold; "director" and
\* "Assistant Director" do not match, and without a match it returns
\* "Unknown".
C20_FirstDirectorDecides ==
    (out.director # Unset /\ KeyIn("crew", credits)) =>
        LET crew == credits.m["crew"].items
        IN  /\ IF Directors(crew) = {} THEN out.director = Str("Unknown")
               ELSE LET first == CHOOSE i \in Directors(crew) : \A j \in Directors(crew) : i <= j
                    IN  IF "name" \in DOMAIN crew[first].m
                        THEN out.director = crew[first].m["name"]
                        ELSE out.director = Str("Unknown")
            /\ crew = <<Crew("R", "director"), Crew("Q", "Assistant Director")>> =>
                  out.director = Str("Unknown")
            /\ crew = <<Crew("P1", "Producer"), Crew("D", "Director"), Crew("E", "Director")>> =>
                  out.director = Str("D")

\* extract_director was applied to a crew whose first Director entry has no
\* name and whose second has one, after a near-match, and gave "Unknown"
C20_Witness ==
    /\ KeyIn("crew", credits)
    /\ credits.m["crew"].items
          = <<Crew("Q", "Assistant Director"), Dict([job |-> Str("Director")]),
              Crew("E", "Director")>>
    /\ out.director = Str("Unknown")

\* a * b = c for three numbers, by cross-multiplication
IsProduct(a, b, c) == a.t = "num" /\ a.n * b.n * c.d = c.n * a.d * b.d

\* C14: when add_kpis returns, in every row profit_musd is revenue_musd minus
\* budget_musd and roi is revenue_musd divided by budget_musd, both null when
\* either operand is null, and roi is null when budget_musd is 0; the input
\* table is as it was and the result has its columns followed by exactly
\* profit_musd and roi.
C14_Kpis ==
    pc = "kpis_returned" =>
        /\ df.cols = raw.cols \o <<"profit_musd", "roi">>
        /\ Len(df.rows) = Len(raw.rows)
        /\ \A i \in DOMAIN df.rows :
              LET w == df.rows[i].r
                  rev == raw.rows[i].r["revenue_musd"]
                  bud == raw.rows[i].r["budget_musd"]
              IN  /\ \A c \in Range(raw.cols) : w[c] = raw.rows[i].r[c]
                  /\ IF IsNull(rev) \/ IsNull(bud)
                     THEN IsNull(w["profit_musd"]) /\ IsNull(w["roi"])
                     ELSE /\ Fraction(w["profit_musd"].n * bud.d + bud.n * w["profit_musd"].d,
                                      w["profit_musd"].d * bud.d) = rev
                          /\ IF bud.n = 0 THEN IsNull(w["roi"])
                             ELSE IsProduct(w["roi"], bud, rev)

\* C18: the returned rows are in the relative order of the records they
\* derive from, and their index labels are 0, 1, ..., n - 1.
C18_OrderAndIndex ==
    Returned =>
        \A i \in DOMAIN df.rows :
            /\ df.rows[i].idx = i - 1
            /\ df.rows[i].src \in DOMAIN raw.rows
            /\ df.rows[i].r["title"] = Source(df.rows[i])["title"]
            /\ \A j \in DOMAIN df.rows : i < j => df.rows[i].src < df.rows[j].src

\* the first record (no title) was dropped, the second came out as row 0
C18_Witness ==
    /\ Returned
    /\ Len(raw.rows) = 2
    /\ IsNull(raw.rows[1].r["title"])
    /\ Len(df.rows) = 1
    /\ df.rows[1].src = 2 /\ df.rows[1].idx = 0
    /\ df.rows[1].r["title"] = Str("S")

\* the positions in df_raw of the first record of each id (after numeric
\* coercion; records without a usable id have none)
FirstOfId ==
    {i \in DOMAIN raw.rows :
        /\ ~IsNull(ToNumeric(raw.rows[i].r["id"]))
        /\ \A j \in 1..(i - 1) :
              ToNumeric(raw.rows[j].r["id"]) # ToNumeric(raw.rows[i].r["id"])}

\* C21: every returned row derives from the first record of its id in batch
\* order, so an id whose first record is not in the returned table (null
\* title, fewer than 10 non-null values, status other than "Released") is
\* in no returned row, whatever later records with that id hold.
C21_FirstRecordDecides ==
    Returned =>
        /\ \A w \in Rows :
              /\ w.src \in FirstOfId
              /\ w.r["id"] = ToNumeric(Source(w)["id"])
        /\ \A i \in FirstOfId :
              (\A w \in Rows : w.src # i) =>
                  \A w \in Rows : w.r["id"] # ToNumeric(raw.rows[i].r["id"])

\* a "Post Production" record came first and a complete released record with
\* the same id second, and the returned table is empty
C21_Witness ==
    /\ Returned
    /\ Len(raw.rows) = 2
    /\ raw.rows[1].r = With1(Movie, "status", Str("Post Production"))
    /\ raw.rows[2].r = Movie
    /\ Len(df.rows) = 0
====
